---- MODULE Spec2Model ----
(***************************************************************************)
(* State-machine model of the AutoJS device agent (src/autojs_client.js):  *)
(* the WebSocket connection lifecycle, the reconnect backoff, the          *)
(* heartbeat timer chain, the message dispatcher, the script execution     *)
(* manager and the log push.                                               *)
(*                                                                         *)
(* Every JavaScript function is an operator from an agent state record to  *)
(* the agent state record after the call, so that a handler is the         *)
(* sequential composition of the calls it makes.  An action takes the      *)
(* current state (Begin), runs one whole callback and commits the result.  *)
(*                                                                         *)
(* The runtime around the code:                                            *)
(*  - a socket is connecting, open, closing (after close()) or closed; its *)
(*    close event comes once, also when the attempt fails before opening;  *)
(*    $websocket.connect may throw, which runs the catch block;            *)
(*  - timers fire in any order; no timer is ever cancelled by the code;    *)
(*  - an engine is running until it exits or forceStop() is called on it;  *)
(*    its exit event comes later in both cases;                            *)
(*  - an exception that leaves a callback reaches events.on("exception");  *)
(*  - text frames arrive on a socket until its close event, also after     *)
(*    close() was called on it;                                            *)
(*  - the authentication endpoint numbers the tokens it issues; its        *)
(*    answers arrive in any order, with a token, without one, or not at    *)
(*    all (the request is rejected);                                       *)
(*  - a script that throws ends in the catch block of its wrapper; while   *)
(*    it runs it may call the sendLog it was given;                        *)
(*  - a callback registered with .catch runs as a callback of its own      *)
(*    after the .then callback that threw;                                 *)
(*  - storage is empty when the file is loaded, or holds the token of an   *)
(*    earlier run;                                                         *)
(*  - the exit event of the agent's own engine and the battery_low event   *)
(*    come at any time; callbacks that are already on their way are still  *)
(*    delivered afterwards;                                                *)
(*  - $threads.shutDownAll(), engines.stopAll() and runtime.restart() are  *)
(*    calls into the host: they return, and what they cause comes later    *)
(*    as events of its own (engine exits, the agent's exit event, the load *)
(*    of the file in the restarted runtime).                               *)
(***************************************************************************)
EXTENDS Integers, Sequences, FiniteSets, TLC

\* ---------------------------------------------------------------- constants
MAX_RETRY == 5
HEARTBEAT_INTERVAL == 30000
BackoffBase == 2000
BackoffCap == 30000

\* ------------------------------------------------------------------- bounds
\* socket objects that are alive (not yet closed, or still held by ws)
MaxSockets == 2
\* script engines that have been started and have not yet exited
MaxEngines == 2
\* reconnect timers pending at the same time
MaxReconnectTimers == 1
\* heartbeat timers pending at the same time
MaxHeartbeatTimers == 2
\* authentication requests in flight at the same time
MaxAuthPending == 2
\* distinct tokens the authentication endpoint hands out
MaxToken == 2
\* distinct script contents (versions) the controller sends
MaxVersion == 2
\* the count of consecutive failures is followed up to this value
MaxFails == 6

ScriptIds == {"s1", "s2"}
\* the Map key of a script object that carries no id (JavaScript undefined)
NoId == "undefined"
Keys == ScriptIds \cup {NoId}
SYSTEM == "SYSTEM"

VARIABLES
    ws,            \* the global ws: a socket slot, or 0 for null / undefined
    socks,         \* socket slot -> [st, tok]: readyState and Authorization token
    retryCount,    \* the global retryCount
    rcTimers,      \* pending setTimeout(() => ws = initWebSocket(), delay): the delays
    hbTimers,      \* pending setTimeout(sendHeartbeat, interval): the intervals
    authToken,     \* the global authToken (0: null)
    stored,        \* storage "auth_token" (0: absent)
    hbInterval,    \* the value of HEARTBEAT_INTERVAL the code reads
    running,       \* runningScripts: key -> engine slot (0: no entry)
    engs,          \* engine slot -> [st, id, ver, caught]; caught: the catch block
                   \* of the wrapper has run
    authPending,   \* $http.post requests whose .then / .catch chain has not ended
    rejected,      \* of these, the ones whose .then threw and whose .catch is due
    restart,       \* runtime.restart() has been called in this run of the agent
    responses,     \* tokens the endpoint has issued, their responses on the way
    issued,        \* the token the endpoint issued last (tokens count up from 1)
    emitted,       \* what the last callback pushed: log records and frames, in order
    last,          \* the last callback that ran and its input (observation)
    fails          \* closes / failed attempts since the last open (observation)

vars == <<ws, socks, retryCount, rcTimers, hbTimers, authToken, stored,
          hbInterval, running, engs, authPending, rejected, restart, responses,
          issued, emitted, last, fails>>

\* ------------------------------------------------------------------ helpers
Min(set) == CHOOSE x \in set : \A y \in set : x <= y

\* Math.pow(2, n) for a count n
RECURSIVE Pow2(_)
Pow2(n) == IF n = 0 THEN 1 ELSE 2 * Pow2(n - 1)

\* pending timers are kept ordered by their delay: which of them fires first is
\* the scheduler's choice, so their order in the sequence carries nothing
RECURSIVE Insert(_, _)
Insert(seq, x) ==
    IF seq = <<>> THEN <<x>>
    ELSE IF x <= Head(seq) THEN <<x>> \o seq
    ELSE <<Head(seq)>> \o Insert(Tail(seq), x)

RemoveAt(seq, i) == [j \in 1..(Len(seq) - 1) |-> IF j < i THEN seq[j] ELSE seq[j + 1]]

\* sequential composition: the state x is computed once and then handed to F
Then(x, F(_)) == CHOOSE r \in {F(v) : v \in {x}} : TRUE

FreeSockRec == [st |-> "free", tok |-> 0]
FreeEngRec == [st |-> "free", id |-> NoId, ver |-> 0, caught |-> FALSE]

\* the agent state as one record; ovf marks a run that needs more than the bounds
Cur == [ws |-> ws, socks |-> socks, retryCount |-> retryCount, rcTimers |-> rcTimers,
        hbTimers |-> hbTimers, authToken |-> authToken, stored |-> stored,
        hbInterval |-> hbInterval, running |-> running, engs |-> engs,
        authPending |-> authPending, rejected |-> rejected, restart |-> restart,
        responses |-> responses, issued |-> issued,
        emitted |-> emitted, last |-> last, fails |-> fails, ovf |-> FALSE]

\* the callback ev, with the message type and the script id it was given
Ev(ev, type, id) == [ev |-> ev, type |-> type, id |-> id]

\* a callback starts with nothing emitted yet
Begin(l) == Then(Cur, LAMBDA c : [c EXCEPT !.emitted = <<>>, !.last = l])

\* ws && ws.readyState === WebSocket.OPEN
WsOpen(S) == S.ws # 0 /\ S.socks[S.ws].st = "open"

\* ------------------------------------------------------------------ logging
LogRec(content, scriptId, arg, sent) ==
    [type |-> "LOG", content |-> content, scriptId |-> scriptId, arg |-> arg,
     sent |-> sent]

\* the default parameter scriptId = "SYSTEM": undefined is replaced by it
LogId(scriptId) == IF scriptId = NoId THEN SYSTEM ELSE scriptId

\* pushLog without the test of ws.readyState
pushLog_Unguarded(S, content, scriptId, arg) ==
    [S EXCEPT !.emitted = Append(@, LogRec(content, LogId(scriptId), arg, TRUE))]

\* pushLog(content, scriptId = "SYSTEM"): the record is sent only on an open ws,
\* else dropped
pushLog(S, content, scriptId, arg) ==
    [S EXCEPT !.emitted =
        Append(@, LogRec(content, LogId(scriptId), arg, WsOpen(S)))]

\* deviceLog(message): console output plus pushLog(message) with the default id
deviceLog(S, message, arg) == pushLog(S, message, SYSTEM, arg)

\* ---------------------------------------------------------------- heartbeat
HeartbeatFrame == [type |-> "HEARTBEAT", content |-> "", scriptId |-> SYSTEM,
                   arg |-> 0, sent |-> TRUE]

sendHeartbeat(S) ==
    IF ~WsOpen(S) THEN S
    ELSE [S EXCEPT !.emitted = Append(@, HeartbeatFrame),
                   !.hbTimers = Insert(@, S.hbInterval)]

StatsFrame == [type |-> "DEVICE_STATS", content |-> "", scriptId |-> SYSTEM,
               arg |-> 0, sent |-> TRUE]

\* the setInterval callback that reports the device statistics
reportStats(S) ==
    IF WsOpen(S) THEN [S EXCEPT !.emitted = Append(@, StatsFrame)] ELSE S

\* ---------------------------------------------------------------- reconnect
\* Math.min(30000, 2000 * Math.pow(2, retryCount))
\* the delay without the cap
Delay_NoCap(n) == BackoffBase * Pow2(n)

Delay(n) == IF BackoffBase * Pow2(n) < BackoffCap THEN BackoffBase * Pow2(n)
            ELSE BackoffCap

\* scheduleReconnect with the ceiling test off by one (> for >=)
scheduleReconnect_OffByOne(S) ==
    LET F == [S EXCEPT !.fails = IF @ < MaxFails THEN @ + 1 ELSE @] IN
    IF F.retryCount > MAX_RETRY
    THEN deviceLog(F, "retry_exhausted", 0)
    ELSE LET delay == Delay(F.retryCount)
             S1 == [F EXCEPT !.retryCount = @ + 1]
             S2 == deviceLog(S1, "reconnect_in", delay)
         IN [S2 EXCEPT !.rcTimers = Insert(@, delay)]

\* scheduleReconnect without the setTimeout
scheduleReconnect_NoTimer(S) ==
    LET F == [S EXCEPT !.fails = IF @ < MaxFails THEN @ + 1 ELSE @] IN
    IF F.retryCount >= MAX_RETRY
    THEN deviceLog(F, "retry_exhausted", 0)
    ELSE deviceLog([F EXCEPT !.retryCount = @ + 1], "reconnect_in", Delay(F.retryCount))

scheduleReconnect(S) ==
    LET F == [S EXCEPT !.fails = IF @ < MaxFails THEN @ + 1 ELSE @] IN
    IF F.retryCount >= MAX_RETRY
    THEN deviceLog(F, "retry_exhausted", 0)
    ELSE LET delay == Delay(F.retryCount)
             S1 == [F EXCEPT !.retryCount = @ + 1]
             S2 == deviceLog(S1, "reconnect_in", delay)
         IN [S2 EXCEPT !.rcTimers = Insert(@, delay)]

\* ---------------------------------------------------------------- websocket
FreeSocks(S) == {i \in 1..MaxSockets : S.socks[i].st = "free"}

\* initWebSocket(): [state, ret]; ret is the new socket, or 0 (undefined) when
\* $websocket.connect threw and the catch block ran
initWebSocket(S, throws) ==
    IF throws
    THEN [state |-> Then(deviceLog(S, "ws_exception", 0), scheduleReconnect),
          ret |-> 0]
    ELSE IF FreeSocks(S) = {}
    THEN [state |-> [S EXCEPT !.ovf = TRUE], ret |-> 0]
    ELSE LET s == Min(FreeSocks(S)) IN
         [state |-> [S EXCEPT !.socks[s] = [st |-> "connecting", tok |-> S.authToken]],
          ret |-> s]

\* ws = initWebSocket()
assignWs(S, throws) ==
    Then(initWebSocket(S, throws), LAMBDA r : [r.state EXCEPT !.ws = r.ret])

\* ws.close(): starts the closing handshake; the close event comes later
closeSocket(S, s) ==
    IF S.socks[s].st \in {"connecting", "open"}
    THEN [S EXCEPT !.socks[s].st = "closing"]
    ELSE S

\* the open handler without the reset of retryCount
onOpen_NoReset(S) ==
    Then(Then([S EXCEPT !.fails = 0], sendHeartbeat),
         LAMBDA s : deviceLog(s, "ws_open", 0))

\* ws.on("open", ...)
onOpen(S) ==
    LET S1 == [S EXCEPT !.retryCount = 0, !.fails = 0]
    IN Then(Then(S1, sendHeartbeat), LAMBDA s : deviceLog(s, "ws_open", 0))

\* ws.on("close", ...)
onClose(S) == Then(deviceLog(S, "ws_closed", 0), scheduleReconnect)

\* ------------------------------------------------------------------ scripts
FreeEngs(S) == {e \in 1..MaxEngines : S.engs[e].st = "free"}

\* events.on("exception", ...): an uncaught exception of a callback
uncaught(S) == pushLog(S, "CRITICAL_ERROR", SYSTEM, 0)

\* executeScript(scriptData), scriptData an object with id (NoId: no id) and content
executeScript(S, id, ver) ==
    IF FreeEngs(S) = {} THEN [S EXCEPT !.ovf = TRUE]
    ELSE LET e == Min(FreeEngs(S))
             S1 == [S EXCEPT !.engs[e] = [st |-> "running", id |-> id, ver |-> ver,
                                          caught |-> FALSE],
                             !.running[id] = e]
         IN pushLog(S1, "script_started", id, ver)

\* terminateScript with the log outside the test for the entry
terminateScript_LogAlways(S, id) ==
    LET S1 == IF S.running[id] # 0
              THEN [S EXCEPT !.engs[S.running[id]].st = "stopping", !.running[id] = 0]
              ELSE S
    IN pushLog(S1, "script_terminated", id, 0)

\* terminateScript without runningScripts.delete
terminateScript_KeepEntry(S, id) ==
    IF S.running[id] # 0
    THEN pushLog([S EXCEPT !.engs[S.running[id]].st = "stopping"],
                 "script_terminated", id, 0)
    ELSE S

\* terminateScript(scriptId)
terminateScript(S, id) ==
    IF S.running[id] # 0
    THEN LET e == S.running[id]
             S1 == [S EXCEPT !.engs[e].st = "stopping", !.running[id] = 0]
         IN pushLog(S1, "script_terminated", id, 0)
    ELSE S

\* sendLog: (log) => pushLog(log, scriptId), the function handed to the script
\* of the engine in slot e, with the scriptId of that execution
sendLog(S, e, log) == pushLog(S, log, S.engs[e].id, 0)

\* the catch block of the wrapper around the script content: the script of the
\* engine in slot e threw, sendLog("SCRIPT_ERROR: " + e) is pushLog(log, scriptId)
\* with the scriptId of that execution; the wrapper function then returns and
\* the engine ends, its exit event comes later
scriptFault(S, e) ==
    sendLog([S EXCEPT !.engs[e].st = "faulted", !.engs[e].caught = TRUE],
            e, "SCRIPT_ERROR")

\* engine.on("exit", ...) of the engine in slot e
onExit(S, e) ==
    LET id == S.engs[e].id
        S1 == [S EXCEPT !.running[id] = 0, !.engs[e] = FreeEngRec]
    IN pushLog(S1, "script_stopped", id, 0)

\* hotReloadScript(scriptId, newContent)
hotReloadScript(S, id, ver) ==
    IF S.running[id] # 0
    THEN Then(Then(terminateScript(S, id), LAMBDA s : executeScript(s, id, ver)),
              LAMBDA s : deviceLog(s, "hot_reloaded", 0))
    ELSE S

\* ----------------------------------------------------------- authentication
\* handleAuthentication(): the request leaves; the response is a later callback
handleAuthentication(S) ==
    IF S.authPending >= MaxAuthPending THEN [S EXCEPT !.ovf = TRUE]
    ELSE [S EXCEPT !.authPending = @ + 1]

\* .then(res => ...) with res.data.token = tok
authThen(S, tok, throws) ==
    LET S1 == [S EXCEPT !.authToken = tok, !.stored = tok, !.authPending = @ - 1]
    IN Then(Then(deviceLog(S1, "auth_ok", 0),
                 LAMBDA s : IF s.ws # 0 THEN closeSocket(s, s.ws) ELSE s),
            LAMBDA s : assignWs(s, throws))

\* .catch(err => ...)
authCatch(S) == deviceLog([S EXCEPT !.authPending = @ - 1], "auth_failed", 0)

\* .then(res => ...) with a body without token: authToken becomes undefined;
\* storage.put of undefined either stores it or throws, and a throw ends the
\* .then callback there: the .catch callback is due
authThenNoToken(S, putThrows, throws) ==
    IF putThrows THEN [S EXCEPT !.authToken = 0, !.rejected = @ + 1]
    ELSE authThen(S, 0, throws)

\* ------------------------------------------------------------------- config
\* updateDeviceConfig(config): HEARTBEAT_INTERVAL is declared const, so the
\* assignment either throws a TypeError or is ignored, depending on the engine
updateDeviceConfig(S, hasConfig, hbi, constThrows) ==
    IF ~hasConfig THEN uncaught(S)
    ELSE IF hbi = 0 THEN S
    ELSE IF constThrows THEN uncaught(S)
    ELSE deviceLog(S, "heartbeat_interval", S.hbInterval)

\* ------------------------------------------------------------------ startup
EmptyState(tok) ==
    [ws |-> 0, socks |-> [i \in 1..MaxSockets |-> FreeSockRec], retryCount |-> 0,
     rcTimers |-> <<>>, hbTimers |-> <<>>, authToken |-> tok, stored |-> tok,
     hbInterval |-> HEARTBEAT_INTERVAL, running |-> [k \in Keys |-> 0],
     engs |-> [e \in 1..MaxEngines |-> FreeEngRec], authPending |-> 0,
     rejected |-> 0, restart |-> FALSE, responses |-> <<>>, issued |-> 0,
     emitted |-> <<>>, last |-> Ev("start", "", ""), fails |-> 0, ovf |-> FALSE]

\* the main entry: deviceLog("AutoJS客户端启动"); ws = initWebSocket()
Main(tok, throws) ==
    Then(deviceLog(EmptyState(tok), "client_start", 0), LAMBDA s : assignWs(s, throws))

\* events.on("exit", ...): the exit of the agent's own engine
exitHandler(S) ==
    Then(deviceLog(S, "service_exit", 0),
         LAMBDA s : IF s.ws # 0 THEN closeSocket(s, s.ws) ELSE s)

\* events.on("battery_low", ...): pushLog with the default scriptId; the loop
\* over runningScripts terminates nothing, isCriticalScript is defined nowhere
batteryLow(S) == pushLog(S, "battery_low", NoId, 0)

\* engines.stopAll(): every engine that runs is asked to stop, as by
\* forceStop(); runningScripts is not touched, the exit events come later
stopAll(S) ==
    [S EXCEPT !.engs = [e \in 1..MaxEngines |->
        IF S.engs[e].st = "running" THEN [S.engs[e] EXCEPT !.st = "stopping"]
        ELSE S.engs[e]]]

\* rebootDevice(): the log, $threads.shutDownAll(), engines.stopAll() and
\* runtime.restart(), of which the agent keeps that a restart was asked for
rebootDevice(S) ==
    Then(Then(deviceLog(S, "reboot", 0), stopAll),
         LAMBDA s : [s EXCEPT !.restart = TRUE])

\* ------------------------------------------------------------------ frames
Msg(parse, type, hasScript, id, ver, scriptId, hasConfig, hbi) ==
    [parse |-> parse, type |-> type, hasScript |-> hasScript, id |-> id, ver |-> ver,
     scriptId |-> scriptId, hasConfig |-> hasConfig, hbi |-> hbi]

Plain(type) == Msg("object", type, FALSE, NoId, 0, NoId, FALSE, 0)

\* {type: "RUN_SCRIPT", script: {id, content}}; id NoId: script carries no id
RunFrame(id, ver) == Msg("object", "RUN_SCRIPT", TRUE, id, ver, NoId, FALSE, 0)

\* {type: "STOP_SCRIPT", scriptId: id}; id NoId: the frame carries no scriptId
StopFrame(id) == Msg("object", "STOP_SCRIPT", FALSE, NoId, 0, id, FALSE, 0)

RunScriptFrames ==
    {RunFrame(id, v) : id \in Keys, v \in 1..MaxVersion} \cup {Plain("RUN_SCRIPT")}

StopScriptFrames == {StopFrame(id) : id \in Keys}

ConfigFrames ==
    {Msg("object", "CONFIG_UPDATE", TRUE, NoId, 0, NoId, TRUE, h) : h \in {0, 60000}}
    \cup {Plain("CONFIG_UPDATE")}

\* {type: "CONFIG_UPDATE", config: {heartbeatInterval: h}}
ConfigFrame(h) == Msg("object", "CONFIG_UPDATE", TRUE, NoId, 0, NoId, TRUE, h)

Frames ==
    RunScriptFrames \cup StopScriptFrames \cup ConfigFrames
    \cup {Plain("AUTH_REQUIRED"), Plain("DEVICE_REBOOT"), Plain("HEARTBEAT_ACK"),
          Plain("SCRIPT_PUSH"), Plain(NoId),
          Msg("error", NoId, FALSE, NoId, 0, NoId, FALSE, 0),
          Msg("null", NoId, FALSE, NoId, 0, NoId, FALSE, 0)}

\* the script id a frame names: script.id of RUN_SCRIPT, scriptId of STOP_SCRIPT
FrameId(m) == IF m.type = "RUN_SCRIPT" THEN m.id
              ELSE IF m.type = "STOP_SCRIPT" THEN m.scriptId ELSE ""

\* a frame that is not a well-formed message of its type
Malformed(m) ==
    \/ m.parse # "object"
    \/ m.type = NoId
    \/ m.type = "RUN_SCRIPT" /\ (~m.hasScript \/ m.id = NoId)
    \/ m.type = "STOP_SCRIPT" /\ m.scriptId = NoId
    \/ m.type = "CONFIG_UPDATE" /\ ~m.hasConfig

\* handleServerMessage with the break of case "HEARTBEAT_ACK" missing
handleServerMessage_AckFallsThrough(S, m, throws) ==
    CASE m.type = "AUTH_REQUIRED" -> handleAuthentication(S)
      [] m.type = "RUN_SCRIPT" ->
            IF m.hasScript THEN executeScript(S, m.id, m.ver) ELSE uncaught(S)
      [] m.type = "STOP_SCRIPT" -> terminateScript(S, m.scriptId)
      [] m.type = "DEVICE_REBOOT" -> rebootDevice(S)
      [] m.type = "HEARTBEAT_ACK" -> updateDeviceConfig(S, m.hasConfig, m.hbi, throws)
      [] m.type = "CONFIG_UPDATE" -> updateDeviceConfig(S, m.hasConfig, m.hbi, throws)
      [] OTHER -> deviceLog(S, "unknown_command", 0)

\* handleServerMessage(msg)
handleServerMessage(S, m, throws) ==
    CASE m.type = "AUTH_REQUIRED" -> handleAuthentication(S)
      [] m.type = "RUN_SCRIPT" ->
            IF m.hasScript THEN executeScript(S, m.id, m.ver) ELSE uncaught(S)
      [] m.type = "STOP_SCRIPT" -> terminateScript(S, m.scriptId)
      [] m.type = "DEVICE_REBOOT" -> rebootDevice(S)
      [] m.type = "HEARTBEAT_ACK" -> S
      [] m.type = "CONFIG_UPDATE" -> updateDeviceConfig(S, m.hasConfig, m.hbi, throws)
      [] OTHER -> deviceLog(S, "unknown_command", 0)

\* ws.on("text", text => handleServerMessage(JSON.parse(text)))
onText(S, m, throws) ==
    IF m.parse = "error" THEN uncaught(S)
    ELSE IF m.parse = "null" THEN uncaught(S)
    ELSE handleServerMessage(S, m, throws)

\* ------------------------------------------------------------------- commit
\* a closed socket that ws no longer names has no further behaviour: its slot
\* is free again
Collect(S) ==
    [S EXCEPT !.socks = [i \in 1..MaxSockets |->
        IF S.socks[i].st = "closed" /\ S.ws # i THEN FreeSockRec ELSE S.socks[i]]]

\* Socket and engine objects are references without an order of their own: the
\* slots are renumbered by what they hold, so that two states that differ
\* only in the numbering of the objects are one state.
StateRank(st) ==
    CASE st = "connecting" -> 1 [] st = "open" -> 2 [] st = "closing" -> 3
      [] st = "closed" -> 4 [] st = "running" -> 1 [] st = "stopping" -> 2
      [] st = "faulted" -> 3 [] OTHER -> 9

KeyRank(k) == CASE k = "s1" -> 1 [] k = "s2" -> 2 [] OTHER -> 3

SockRank(S, i) ==
    (StateRank(S.socks[i].st) * (MaxToken + 1) + S.socks[i].tok) * 2
        + (IF S.ws = i THEN 0 ELSE 1)

EngRank(S, e) ==
    (((StateRank(S.engs[e].st) * 4 + KeyRank(S.engs[e].id)) * (MaxVersion + 1)
        + S.engs[e].ver) * 2
        + (IF S.running[S.engs[e].id] = e THEN 0 ELSE 1)) * 2
        + (IF S.engs[e].caught THEN 1 ELSE 0)

\* the place of slot i when the slots are put in ascending order of rank
Place(rank, i) ==
    1 + Cardinality({j \in DOMAIN rank :
            rank[j] < rank[i] \/ (rank[j] = rank[i] /\ j < i)})

\* the renumbering of S with socket i moved to ps[i] and engine e to pe[e]
Permute(S, ps, pe) ==
    [S EXCEPT
       !.socks = [k \in 1..MaxSockets |->
           S.socks[CHOOSE i \in 1..MaxSockets : ps[i] = k]],
       !.ws = IF S.ws = 0 THEN 0 ELSE ps[S.ws],
       !.engs = [k \in 1..MaxEngines |->
           S.engs[CHOOSE e \in 1..MaxEngines : pe[e] = k]],
       !.running = [k \in Keys |->
           IF S.running[k] = 0 THEN 0 ELSE pe[S.running[k]]]]

\* the places of all slots for the ranks given
Places(rank) ==
    CHOOSE p \in {[i \in DOMAIN r |-> Place(r, i)] : r \in {rank}} : TRUE

Renumber(S) ==
    CHOOSE r \in {Permute(S, ps, pe) :
                    ps \in {Places([i \in 1..MaxSockets |-> SockRank(S, i)])},
                    pe \in {Places([e \in 1..MaxEngines |-> EngRank(S, e)])}} : TRUE

Normal(S) == Then(Then(S, Collect), Renumber)

Commit(S0) ==
    \E S \in {Normal(S0)} :
    /\ ~S.ovf
    /\ Len(S.rcTimers) <= MaxReconnectTimers
    /\ Len(S.hbTimers) <= MaxHeartbeatTimers
    /\ ws' = S.ws
    /\ socks' = S.socks
    /\ retryCount' = S.retryCount
    /\ rcTimers' = S.rcTimers
    /\ hbTimers' = S.hbTimers
    /\ authToken' = S.authToken
    /\ stored' = S.stored
    /\ hbInterval' = S.hbInterval
    /\ running' = S.running
    /\ engs' = S.engs
    /\ authPending' = S.authPending
    /\ rejected' = S.rejected
    /\ restart' = S.restart
    /\ responses' = S.responses
    /\ issued' = S.issued
    /\ emitted' = S.emitted
    /\ last' = S.last
    /\ fails' = S.fails

\* ------------------------------------------------------------------ actions
\* the file is loaded: storage is empty, or holds the token of an earlier run
\* (token 1, the only one the endpoint has issued by then)
Init ==
    \E throws \in BOOLEAN, kept \in BOOLEAN :
        \E S \in {Normal([Main(IF kept THEN 1 ELSE 0, throws) EXCEPT
                              !.issued = IF kept THEN 1 ELSE 0])} :
        /\ ws = S.ws
        /\ socks = S.socks
        /\ retryCount = S.retryCount
        /\ rcTimers = S.rcTimers
        /\ hbTimers = S.hbTimers
        /\ authToken = S.authToken
        /\ stored = S.stored
        /\ hbInterval = S.hbInterval
        /\ running = S.running
        /\ engs = S.engs
        /\ authPending = S.authPending
        /\ rejected = S.rejected
        /\ restart = S.restart
        /\ responses = S.responses
        /\ issued = S.issued
        /\ emitted = S.emitted
        /\ last = S.last
        /\ fails = S.fails

\* the open event of socket s
SockOpen(s) ==
    /\ socks[s].st = "connecting"
    /\ Commit(onOpen([Begin(Ev("open", "", "")) EXCEPT !.socks[s].st = "open"]))

\* the close event of socket s: a failed attempt, a drop, or the end of close()
SockClose(s) ==
    /\ socks[s].st \in {"connecting", "open", "closing"}
    /\ Commit(onClose([Begin(Ev("close", "", "")) EXCEPT !.socks[s].st = "closed"]))

\* a text frame arrives on socket s, which has not had its close event
SockText(s, m, throws) ==
    /\ socks[s].st \in {"open", "closing"}
    /\ Commit(onText(Begin(Ev("text", m.type, FrameId(m))), m, throws))

\* a reconnect timer fires
ReconnectTimer(i, throws) ==
    /\ i \in 1..Len(rcTimers)
    /\ Commit(assignWs([Begin(Ev("reconnect_timer", "", "")) EXCEPT
                              !.rcTimers = RemoveAt(@, i)], throws))

\* a heartbeat timer fires
HeartbeatTimer(i) ==
    /\ i \in 1..Len(hbTimers)
    /\ Commit(sendHeartbeat([Begin(Ev("heartbeat_timer", "", "")) EXCEPT
                                   !.hbTimers = RemoveAt(@, i)]))

\* the statistics interval fires
StatsTimer == Commit(reportStats(Begin(Ev("stats_timer", "", ""))))

\* the endpoint answers one of the requests with the next token
AuthIssue ==
    /\ Len(responses) + rejected < authPending
    /\ issued < MaxToken
    /\ Commit([Begin(Ev("auth_issue", "", "")) EXCEPT
                  !.issued = @ + 1, !.responses = Insert(@, issued + 1)])

\* the authentication response that carries token tok arrives
AuthSuccess(tok, throws) ==
    /\ authPending > 0
    /\ \E i \in 1..Len(responses) :
          /\ responses[i] = tok
          /\ Commit(authThen([Begin(Ev("auth_then", "", "")) EXCEPT
                                 !.responses = RemoveAt(@, i)], tok, throws))

\* a 2xx authentication response without a token arrives
AuthNoToken(putThrows, throws) ==
    /\ authPending > Len(responses) + rejected
    /\ Commit(authThenNoToken(Begin(Ev("auth_then", "no_token", "")),
                              putThrows, throws))

\* an authentication request is rejected
AuthFailure ==
    /\ authPending > Len(responses) + rejected
    /\ Commit(authCatch(Begin(Ev("auth_catch", "", ""))))

\* the .catch callback of a request whose .then callback threw
AuthRejected ==
    /\ rejected > 0
    /\ Commit(authCatch([Begin(Ev("auth_catch", "thrown", "")) EXCEPT
                            !.rejected = @ - 1]))

\* the exit event of engine e: the script ran to its end or was force-stopped
EngineExit(e) ==
    /\ engs[e].st \in {"running", "stopping", "faulted"}
    /\ Commit(onExit(Begin(Ev("exit", "", engs[e].id)), e))

\* the script of engine e throws inside the wrapper's try block, also when
\* the engine has been asked to stop and has not ended yet; the wrapper runs
\* once, so its catch block runs at most once
ScriptFault(e) ==
    /\ engs[e].st \in {"running", "stopping"}
    /\ ~engs[e].caught
    /\ Commit(scriptFault(Begin(Ev("fault", "", engs[e].id)), e))

\* the script of engine e calls sendLog: the closure can be called as long as
\* the engine has not exited
ScriptLog(e) ==
    /\ engs[e].st \in {"running", "stopping", "faulted"}
    /\ Commit(sendLog(Begin(Ev("script_log", "", engs[e].id)), e, "script_log"))

\* hotReloadScript is called for id
HotReload(id, ver) == Commit(hotReloadScript(Begin(Ev("hot_reload", "", id)), id, ver))

\* events.on("network_change", net => ...)
NetworkChange(available, throws) ==
    \E B \in {Begin(Ev("network_change", "", ""))} :
        Commit(IF available /\ B.ws = 0
               THEN Then(deviceLog(B, "network_restored", 0),
                         LAMBDA s : assignWs(s, throws))
               ELSE B)

\* events.on("exit", ...): the agent's own engine exits
AgentExit == Commit(exitHandler(Begin(Ev("agent_exit", "", ""))))

\* events.on("battery_low", ...)
BatteryLow == Commit(batteryLow(Begin(Ev("battery_low", "", ""))))

\* the runtime restarts after runtime.restart(): the file is loaded again, of
\* the run before it only the storage is left (and the tokens the endpoint has
\* issued stay issued)
Restart(throws) ==
    /\ restart
    /\ Commit([Main(stored, throws) EXCEPT !.issued = issued])

\* a well-formed frame of a type the dispatcher has no case for, and the
\* acknowledgement of a heartbeat
UnknownFrame == Plain("SCRIPT_PUSH")
AckFrame == Plain("HEARTBEAT_ACK")

\* frames that reach the execution manager; the others but the restart
ExecFrames == {m \in Frames : m.type \in {"RUN_SCRIPT", "STOP_SCRIPT"}}
ConnFrames == {m \in Frames \ ExecFrames : m.type # "DEVICE_REBOOT"}

\* the frames whose handling has two outcomes (the assignment to a const
\* throwing or being ignored)
TwoWay(m) == m.parse = "object" /\ m.type = "CONFIG_UPDATE"

\* the transport alone: sockets opening and closing, the reconnect and heartbeat
\* timers, the network_change event
NextRetry ==
    \/ \E s \in 1..MaxSockets : SockOpen(s)
    \/ \E s \in 1..MaxSockets : SockClose(s)
    \/ \E i \in 1..MaxReconnectTimers, throws \in BOOLEAN : ReconnectTimer(i, throws)
    \/ \E i \in 1..MaxHeartbeatTimers : HeartbeatTimer(i)
    \/ \E available \in BOOLEAN, throws \in BOOLEAN : NetworkChange(available, throws)

\* the connection side: the transport, the frames that neither reach the
\* execution manager nor restart the agent, and the exit event of the agent,
\* while the authentication endpoint does not answer
NextConn ==
    \/ NextRetry
    \/ \E s \in 1..MaxSockets, m \in ConnFrames, throws \in BOOLEAN :
          (throws => TwoWay(m)) /\ SockText(s, m, throws)
    \/ AgentExit

\* the execution side: script frames, engine exits and hot reload, on a
\* connection that opens and drops
NextExec ==
    \/ \E s \in 1..MaxSockets : SockOpen(s)
    \/ \E s \in 1..MaxSockets : SockClose(s)
    \/ \E s \in 1..MaxSockets, m \in ExecFrames : SockText(s, m, FALSE)
    \/ \E e \in 1..MaxEngines : EngineExit(e)
    \/ \E id \in ScriptIds, ver \in 1..MaxVersion : HotReload(id, ver)

\* the dispatcher: every frame the controller can send, on a connection that
\* opens and drops, with the restart that DEVICE_REBOOT asks for
NextDispatch ==
    \/ \E s \in 1..MaxSockets : SockOpen(s)
    \/ \E s \in 1..MaxSockets : SockClose(s)
    \/ \E s \in 1..MaxSockets, m \in Frames, throws \in BOOLEAN :
          (throws => TwoWay(m)) /\ SockText(s, m, throws)
    \/ \E e \in 1..MaxEngines : EngineExit(e)
    \/ \E throws \in BOOLEAN : Restart(throws)

\* authentication: AUTH_REQUIRED frames and every answer of the endpoint, on
\* connections that open and drop
NextAuth ==
    \/ \E s \in 1..MaxSockets : SockOpen(s)
    \/ \E s \in 1..MaxSockets : SockClose(s)
    \/ \E s \in 1..MaxSockets : SockText(s, Plain("AUTH_REQUIRED"), FALSE)
    \/ AuthIssue
    \/ \E tok \in 1..MaxToken, throws \in BOOLEAN : AuthSuccess(tok, throws)
    \/ \E putThrows \in BOOLEAN, throws \in BOOLEAN : AuthNoToken(putThrows, throws)
    \/ AuthFailure
    \/ AuthRejected

\* scripts that throw: RUN_SCRIPT and STOP_SCRIPT frames, faults, script logs
\* and engine exits, on a connection that opens and drops
NextFault ==
    \/ \E s \in 1..MaxSockets : SockOpen(s)
    \/ \E s \in 1..MaxSockets : SockClose(s)
    \/ \E s \in 1..MaxSockets, id \in ScriptIds, v \in 1..MaxVersion :
          SockText(s, RunFrame(id, v), FALSE)
    \/ \E s \in 1..MaxSockets, id \in ScriptIds : SockText(s, StopFrame(id), FALSE)
    \/ \E e \in 1..MaxEngines : ScriptFault(e)
    \/ \E e \in 1..MaxEngines : ScriptLog(e)
    \/ \E e \in 1..MaxEngines : EngineExit(e)

\* the agent left alone: the transport and the timers, and the exit event of
\* the agent, which closes the connection
NextReconnect ==
    \/ \E s \in 1..MaxSockets : SockOpen(s)
    \/ \E s \in 1..MaxSockets : SockClose(s)
    \/ \E i \in 1..MaxReconnectTimers, throws \in BOOLEAN : ReconnectTimer(i, throws)
    \/ \E i \in 1..MaxHeartbeatTimers : HeartbeatTimer(i)
    \/ StatsTimer
    \/ AgentExit

\* frames without a handler of their own, between RUN_SCRIPT frames, on a
\* connection that opens and drops
NextIgnore ==
    \/ \E s \in 1..MaxSockets : SockOpen(s)
    \/ \E s \in 1..MaxSockets : SockClose(s)
    \/ \E s \in 1..MaxSockets, id \in ScriptIds, v \in 1..MaxVersion :
          SockText(s, RunFrame(id, v), FALSE)
    \/ \E s \in 1..MaxSockets, m \in {UnknownFrame, AckFrame} : SockText(s, m, FALSE)
    \/ \E e \in 1..MaxEngines : EngineExit(e)

\* everything that sends without being asked: the transport with its logs and
\* heartbeats, the statistics interval and the battery_low event
NextSend ==
    \/ NextRetry
    \/ StatsTimer
    \/ BatteryLow

Next ==
    NextConn \/ NextDispatch \/ NextExec \/ NextAuth \/ NextFault \/ NextSend
        \/ NextReconnect \/ NextIgnore

\* every event the agent reacts to
Spec == Init /\ [][Next]_vars

\* the agent while the controller sends nothing
SpecRetry == Init /\ [][NextRetry]_vars

\* the agent left alone, with reconnect timers that fire: a pending setTimeout
\* callback runs in the end
SpecReconnect ==
    /\ Init
    /\ [][NextReconnect]_vars
    /\ WF_vars(\E i \in 1..MaxReconnectTimers, throws \in BOOLEAN :
                  ReconnectTimer(i, throws))

\* the agent while the controller sends neither script frames nor a restart
\* and the authentication endpoint does not answer
SpecConn == Init /\ [][NextConn]_vars

\* the agent on its first connection while the controller sends script frames
SpecExec == Init /\ [][NextExec]_vars

\* the agent while the controller sends any frame, restarts included
SpecDispatch == Init /\ [][NextDispatch]_vars

\* the agent while the controller asks for authentication only
SpecAuth == Init /\ [][NextAuth]_vars

\* the agent while the controller sends nothing, with the statistics interval
\* and the battery_low event
SpecSend == Init /\ [][NextSend]_vars

\* the agent on its first connection while the controller sends RUN_SCRIPT
\* frames and frames without a handler
SpecIgnore == Init /\ [][NextIgnore]_vars

\* the agent on its first connection while the scripts it is sent may throw
SpecFault == Init /\ [][NextFault]_vars

\* ------------------------------------------------------------ observations
RunningEngines(id) == {e \in 1..MaxEngines : engs[e].st = "running" /\ engs[e].id = id}

OpenSockets == {s \in 1..MaxSockets : socks[s].st = "open"}

LiveSockets == {s \in 1..MaxSockets : socks[s].st \in {"connecting", "open"}}

\* the sockets whose close event has not come
UnclosedSockets ==
    {s \in 1..MaxSockets : socks[s].st \in {"connecting", "open", "closing"}}

HasLog(em, content) ==
    \E k \in 1..Len(em) : em[k].type = "LOG" /\ em[k].content = content

\* steps of one kind (the test of last' comes first because it is the cheap one)
CloseStep == last'.ev = "close" /\ \E s \in 1..MaxSockets : SockClose(s)

OpenStep == last'.ev = "open" /\ \E s \in 1..MaxSockets : SockOpen(s)

TextStep(m, throws) ==
    /\ last' = Ev("text", m.type, FrameId(m))
    /\ \E s \in 1..MaxSockets : SockText(s, m, throws)

HasFrame(em, type) == \E k \in 1..Len(em) : em[k].type = type

\* a heartbeat timer fires
HeartbeatStep ==
    last'.ev = "heartbeat_timer" /\ \E i \in 1..MaxHeartbeatTimers : HeartbeatTimer(i)

\* the .catch callback runs: the request was rejected, or its .then threw
AuthCatchStep ==
    \/ last' = Ev("auth_catch", "", "") /\ AuthFailure
    \/ last' = Ev("auth_catch", "thrown", "") /\ AuthRejected

\* the .then callback runs on an answer without a token
AuthNoTokenStep(putThrows) ==
    /\ last' = Ev("auth_then", "no_token", "")
    /\ \E throws \in BOOLEAN : AuthNoToken(putThrows, throws)

\* a callback of an authentication attempt that fails: the request is
\* rejected, or the answer carries no token (a non-2xx answer is one or the
\* other, depending on $http)
AuthFailStep == AuthCatchStep \/ \E putThrows \in BOOLEAN : AuthNoTokenStep(putThrows)

\* the engines registered in runningScripts that are running
Active == {id \in Keys : running[id] # 0 /\ engs[running[id]].st = "running"}

\* pushLog was called with content for the script id
HasScriptLog(em, content, id) ==
    \E k \in 1..Len(em) :
        em[k].type = "LOG" /\ em[k].content = content /\ em[k].scriptId = id

\* the log records the agent holds for a later send: pushLog keeps no record
\* that it does not send at once, and no other code holds log records
Retained == <<>>

\* ws && ws.readyState === WebSocket.OPEN in the current state
WsOpenNow == ws # 0 /\ socks[ws].st = "open"

\* every frame and record of the sequence has the given sent flag
AllSent(em, flag) == \A k \in 1..Len(em) : em[k].sent = flag

\* the statistics interval fires
StatsStep == last'.ev = "stats_timer" /\ StatsTimer

\* the battery_low event
BatteryLowStep == last'.ev = "battery_low" /\ BatteryLow

\* how many engines have the record rec
CountEngs(E, rec) == Cardinality({e \in 1..MaxEngines : E[e] = rec})

\* the last callback ran scheduleReconnect below the ceiling: a close event,
\* or a call of initWebSocket whose $websocket.connect threw (the main entry,
\* the reconnect timer, the network_change handler, the .then callback)
FailureScheduled == HasLog(emitted, "reconnect_in")

\* the last callback scheduled a reconnect and left retryCount at n
ScheduledAt(n) == FailureScheduled /\ retryCount = n

\* the last callback was a reconnect timer: ws = initWebSocket() was run again
Reattempted == last.ev = "reconnect_timer"

\* the callback of a reconnect timer runs and $websocket.connect throws
ThrowingReattemptStep ==
    /\ last'.ev = "reconnect_timer"
    /\ \E i \in 1..MaxReconnectTimers : ReconnectTimer(i, TRUE)

\* the exit event of an engine
ExitStep(e) == last'.ev = "exit" /\ EngineExit(e)

\* automatic retries are exhausted and nothing is on its way
GivenUp == retryCount >= MAX_RETRY /\ rcTimers = <<>> /\ LiveSockets = {}

\* the delays of attempts 0..4
BackoffTable == <<2000, 4000, 8000, 16000, 30000>>

\* a stop log for id followed by a start log for id
StopThenStart(em, id) ==
    \E i, j \in 1..Len(em) :
        /\ i < j
        /\ em[i].scriptId = id
        /\ em[i].content \in {"script_terminated", "script_stopped"}
        /\ em[j].scriptId = id
        /\ em[j].content = "script_started"

\* ------------------------------------------------------------------- claims

\* C1: after a RUN_SCRIPT for an id is handled there is exactly one running
\* engine for that id, and no id ever has two running engines.
C1_OneRunningEnginePerId ==
    /\ \A id \in ScriptIds :
          last = Ev("text", "RUN_SCRIPT", id) => Cardinality(RunningEngines(id)) = 1
    /\ \A id \in Keys : Cardinality(RunningEngines(id)) <= 1

\* C2: at most one WebSocket connection of the agent is open at the same time.
C2_AtMostOneOpen == Cardinality(OpenSockets) <= 1

\* C3: at most one sendHeartbeat timer chain is pending at any time.
C3_OneHeartbeatChain == Len(hbTimers) <= 1

\* C4: every close event increases retryCount by one until it has reached
\* MAX_RETRY, where it stays; every open event resets it to 0.
C4_RetryCounter ==
    [][/\ CloseStep =>
            retryCount' = IF retryCount < MAX_RETRY THEN retryCount + 1 ELSE MAX_RETRY
       /\ OpenStep => retryCount' = 0]_vars

\* C4 witness: a close event has just taken retryCount to the ceiling.
C4_Witness ==
    last.ev = "close" /\ retryCount = MAX_RETRY /\ HasLog(emitted, "reconnect_in")

\* C5 as claimed: after 5 consecutive failures the agent has given up: no
\* reconnect timer is pending and no connection attempt is on its way.
C5_GivenUpAfterFive == fails >= MAX_RETRY => GivenUp

\* C5 as amended: retryCount counts the consecutive failures up to MAX_RETRY;
\* each of the first 5 consecutive failures schedules one reconnect timer, and
\* a close handled after that (the 6th consecutive failure or a later one)
\* schedules no timer and starts no connection.
C5_GiveUpAtSixth ==
    /\ [](retryCount = IF fails < MAX_RETRY THEN fails ELSE MAX_RETRY)
    /\ [][CloseStep =>
            IF fails < MAX_RETRY
            THEN Len(rcTimers') = Len(rcTimers) + 1
            ELSE /\ rcTimers' = rcTimers
                 /\ Cardinality(LiveSockets') <= Cardinality(LiveSockets)]_vars

\* C5 witness: the 6th consecutive failure has been handled and the agent has
\* given up.
C5_Witness ==
    /\ last.ev = "close"
    /\ fails = MAX_RETRY + 1
    /\ HasLog(emitted, "retry_exhausted")
    /\ GivenUp

\* C6: once the agent has given up, a network_change event with net.available
\* starts a new connection attempt and resets retryCount to 0.
C6_RevivalAfterGiveUp ==
    [][(GivenUp /\ last'.ev = "network_change" /\ NetworkChange(TRUE, FALSE)) =>
            /\ \E s \in 1..MaxSockets : socks'[s].st = "connecting"
            /\ retryCount' = 0]_vars

\* C7: the backoff delay is min(30000, 2000 * 2^attempt): 2000, 4000, 8000,
\* 16000, 30000 for attempts 0..4, non-decreasing, never above the cap; the
\* delay scheduleReconnect logs and arms is the one of the attempt number
\* before the increment.
C7_BackoffDelay ==
    /\ \A n \in 0..(MAX_RETRY - 1) : Delay(n) = BackoffTable[n + 1]
    /\ \A n \in 0..(2 * MAX_RETRY) : Delay(n) <= BackoffCap /\ Delay(n) <= Delay(n + 1)
    /\ \A k \in 1..Len(emitted) :
          emitted[k].content = "reconnect_in" =>
              /\ retryCount \in 1..MAX_RETRY
              /\ emitted[k].arg = BackoffTable[retryCount]
              /\ \E i \in 1..Len(rcTimers) : rcTimers[i] = emitted[k].arg
    /\ \A i \in 1..Len(rcTimers) : \E n \in 1..MAX_RETRY : rcTimers[i] = BackoffTable[n]

\* C7 witness: the failure of attempt 4 has just been scheduled with the capped
\* delay.
C7_Witness ==
    /\ retryCount = MAX_RETRY
    /\ \E k \in 1..Len(emitted) :
          emitted[k].content = "reconnect_in" /\ emitted[k].arg = BackoffCap

\* C8: a malformed frame changes neither the credential, nor the script
\* instances, nor the heartbeat interval.
C8_MalformedDropped ==
    [][\A m \in {f \in Frames : Malformed(f)}, throws \in BOOLEAN :
          TextStep(m, throws) =>
              UNCHANGED <<authToken, stored, running, engs, hbInterval>>]_vars

\* C9: a STOP_SCRIPT for an id without an entry in runningScripts emits no log
\* record, stops no engine and changes nothing of the agent's state.
C9_StopAbsentIsNoOp ==
    [][\A id \in Keys :
          (running[id] = 0 /\ TextStep(StopFrame(id), FALSE)) =>
              /\ emitted' = <<>>
              /\ UNCHANGED <<ws, socks, retryCount, rcTimers, hbTimers, authToken,
                             stored, hbInterval, running, engs, authPending,
                             rejected, restart, responses, issued, fails>>]_vars

\* C9 witness: a STOP_SCRIPT for an absent id has just been handled while
\* another script is running.
C9_Witness ==
    /\ last.ev = "text"
    /\ last.type = "STOP_SCRIPT"
    /\ running[last.id] = 0
    /\ emitted = <<>>
    /\ \E e \in 1..MaxEngines : engs[e].st = "running" /\ engs[e].id # last.id

\* C10: a RUN_SCRIPT for an id whose engine is running emits a stop log for the
\* id and then a start log for it, and leaves exactly one running engine for
\* the id, the new one, registered under the id.
C10_RunScriptReloads ==
    [][\A id \in ScriptIds, v \in 1..MaxVersion :
          (/\ running[id] # 0
           /\ engs[running[id]].st = "running"
           /\ TextStep(RunFrame(id, v), FALSE)) =>
              /\ StopThenStart(emitted', id)
              /\ Cardinality(RunningEngines(id)') = 1
              /\ running'[id] # 0
              /\ engs'[running'[id]].ver = v]_vars

\* C11: a CONFIG_UPDATE with heartbeatInterval 60000, handled while a heartbeat
\* timer armed with 30000 is pending, leaves that timer as it is and changes the
\* interval the scheduler reads to 60000; a heartbeat that is sent arms the next
\* timer with the interval read at that moment.
C11_IntervalTakesEffect ==
    [][/\ \A throws \in BOOLEAN :
            (/\ \E i \in 1..Len(hbTimers) : hbTimers[i] = HEARTBEAT_INTERVAL
             /\ TextStep(ConfigFrame(60000), throws)) =>
                /\ hbTimers' = hbTimers
                /\ hbInterval' = 60000
       /\ (HeartbeatStep /\ HasFrame(emitted', "HEARTBEAT")) =>
            \E k \in 1..Len(hbTimers') : hbTimers'[k] = hbInterval]_vars

\* C12: a failed authentication (request rejected, or an answer without a
\* token) leaves authToken and the persisted auth_token as they were and
\* neither closes the connection nor starts a new one; it is logged as a
\* failure, by the callback that ends the attempt.
C12_FailureKeepsCredential ==
    [][/\ AuthFailStep =>
            /\ authToken' = authToken
            /\ stored' = stored
            /\ UNCHANGED <<ws, socks, rcTimers, retryCount>>
       /\ (AuthCatchStep \/ AuthNoTokenStep(FALSE)) =>
            HasLog(emitted', "auth_failed")]_vars

\* C13: when the answer to an authentication request arrives with token t,
\* authToken and the persisted auth_token become t, the connection ws named is
\* closed and (unless $websocket.connect throws) ws names a new connection that
\* carries t; and the stored token is never replaced by one issued earlier.
C13_NewestTokenStored ==
    [][\A tok \in 1..MaxToken, throws \in BOOLEAN :
          (last' = Ev("auth_then", "", "") /\ AuthSuccess(tok, throws)) =>
              /\ authToken' = tok
              /\ stored' = tok
              /\ Cardinality(LiveSockets') <= Cardinality(LiveSockets) + 1
              /\ (ws # 0 /\ socks[ws].st \in {"connecting", "open"}) =>
                    Cardinality(LiveSockets') <= Cardinality(LiveSockets)
              /\ ~throws => /\ ws' # 0
                            /\ socks'[ws'] = [st |-> "connecting", tok |-> tok]
              /\ stored' >= stored]_vars

\* C14: a fault inside a running script is isolated.  The fault pushes a log
\* record SCRIPT_ERROR with the id of the script and ends that engine only; the
\* exit of the faulted engine leaves every other running engine running and
\* every running engine that is registered in runningScripts registered; both
\* steps leave the connection, the retry counter and the credential unchanged.
C14_FaultIsolated ==
    [][\A e \in 1..MaxEngines :
          /\ (last'.ev = "fault" /\ ScriptFault(e)) =>
                /\ HasScriptLog(emitted', "SCRIPT_ERROR", engs[e].id)
                /\ \A id \in Keys :
                      Cardinality(RunningEngines(id)') =
                          Cardinality(RunningEngines(id))
                            - (IF id = engs[e].id /\ engs[e].st = "running"
                               THEN 1 ELSE 0)
                /\ \A id \in Keys : (running'[id] # 0) = (running[id] # 0)
                /\ UNCHANGED <<ws, socks, retryCount, authToken, stored>>
          /\ (last'.ev = "exit" /\ engs[e].caught /\ EngineExit(e)) =>
                /\ \A id \in Keys :
                      Cardinality(RunningEngines(id)') = Cardinality(RunningEngines(id))
                /\ Active \subseteq Active'
                /\ UNCHANGED <<ws, socks, retryCount, authToken, stored>>]_vars

\* C15: a log record produced while the connection is not open is retained, in
\* the order of production, for a later send.
C15_UnsentLogsRetained ==
    LET unsent == SelectSeq(emitted, LAMBDA r : r.type = "LOG" /\ ~r.sent)
    IN /\ Len(unsent) <= Len(Retained)
       /\ \A k \in 1..Len(unsent) :
             Retained[Len(Retained) - Len(unsent) + k] = unsent[k]

\* C17: a LOG, HEARTBEAT or DEVICE_STATS frame is sent only if ws is open at the
\* moment of the send.  A callback that does not touch ws sends what it
\* produces exactly when ws is open; the close handler of socket s sends unless
\* ws is s or is not open; the open handler of s sends if ws is s or is open.
\* A heartbeat or statistics timer that fires while ws is not open sends
\* nothing, arms nothing and changes nothing.
C17_SendOnlyWhenOpen ==
    [][/\ UNCHANGED <<ws, socks>> => AllSent(emitted', WsOpenNow)
       /\ \A s \in 1..MaxSockets :
             /\ (last'.ev = "close" /\ SockClose(s)) =>
                   AllSent(emitted', WsOpenNow /\ ws # s)
             /\ (last'.ev = "open" /\ SockOpen(s)) =>
                   /\ AllSent(emitted', WsOpenNow \/ ws = s)
                   /\ HasFrame(emitted', "HEARTBEAT") = (WsOpenNow \/ ws = s)
       /\ HeartbeatStep =>
             /\ HasFrame(emitted', "HEARTBEAT") = WsOpenNow
             /\ ~WsOpenNow =>
                   /\ emitted' = <<>>
                   /\ Len(hbTimers') = Len(hbTimers) - 1
                   /\ UNCHANGED <<ws, socks, retryCount, rcTimers, authToken, stored,
                                  hbInterval, running, engs, authPending, rejected,
                                  restart, responses, issued, fails>>
       /\ StatsStep =>
             /\ HasFrame(emitted', "DEVICE_STATS") = WsOpenNow
             /\ ~WsOpenNow =>
                   /\ emitted' = <<>>
                   /\ UNCHANGED <<ws, socks, retryCount, rcTimers, hbTimers, authToken,
                                  stored, hbInterval, running, engs, authPending,
                                  rejected, restart, responses, issued, fails>>
       /\ BatteryLowStep =>
             /\ AllSent(emitted', WsOpenNow)
             /\ UNCHANGED <<ws, socks, retryCount, rcTimers, hbTimers, authToken,
                            stored, hbInterval, running, engs, authPending,
                            rejected, restart, responses, issued, fails>>]_vars

\* C17 witness: a heartbeat timer has just fired while ws was not open, and
\* nothing was sent and no timer armed.
C17_Witness ==
    /\ last.ev = "heartbeat_timer"
    /\ ~WsOpenNow
    /\ emitted = <<>>
    /\ hbTimers = <<>>

\* C18: a STOP_SCRIPT for an id that has an entry in runningScripts force-stops
\* the engine of that entry and no other engine, removes the entry in the same
\* step (before the exit event of the engine), logs the termination for the
\* id, and leaves the entries of all other ids with their engines.
C18_TerminateStopsAndRemoves ==
    [][\A id \in Keys :
          (running[id] # 0 /\ TextStep(StopFrame(id), FALSE)) =>
              LET old == engs[running[id]]
                  new == [old EXCEPT !.st = "stopping"]
              IN /\ running'[id] = 0
                 /\ \A e \in 1..MaxEngines :
                       /\ CountEngs(engs', engs'[e]) =
                             CountEngs(engs, engs'[e])
                               - (IF engs'[e] = old THEN 1 ELSE 0)
                               + (IF engs'[e] = new THEN 1 ELSE 0)
                       /\ CountEngs(engs', engs[e]) =
                             CountEngs(engs, engs[e])
                               - (IF engs[e] = old THEN 1 ELSE 0)
                               + (IF engs[e] = new THEN 1 ELSE 0)
                 /\ \A other \in Keys \ {id} :
                       IF running[other] = 0 THEN running'[other] = 0
                       ELSE /\ running'[other] # 0
                            /\ engs'[running'[other]] = engs[running[other]]
                 /\ HasScriptLog(emitted', "script_terminated", LogId(id))]_vars

\* C18 witness: a STOP_SCRIPT has just removed the entry of its id while the
\* engine it stopped has not exited yet and another script is still registered
\* and running.
C18_Witness ==
    /\ last.ev = "text"
    /\ last.type = "STOP_SCRIPT"
    /\ running[last.id] = 0
    /\ HasScriptLog(emitted, "script_terminated", LogId(last.id))
    /\ \E e \in 1..MaxEngines : engs[e].st = "stopping" /\ engs[e].id = last.id
    /\ \E other \in Keys \ {last.id} :
          running[other] # 0 /\ engs[running[other]].st = "running"

\* C19: while retryCount is below MAX_RETRY the agent is never without a
\* connection whose close event is still to come and without a pending
\* reconnect timer; a close event or a failed attempt (the connect of the main
\* entry or of a reconnect timer throws) handled below the ceiling arms a
\* timer, and if pending timers fire, every callback that scheduled a reconnect
\* is followed by a later timer callback that calls initWebSocket again (when
\* the scheduling callback was itself a timer callback whose connect threw, by
\* another one: one that does not throw, or throws at another retryCount).
C19_ReconnectFollows ==
    /\ []((UnclosedSockets = {} /\ retryCount < MAX_RETRY) => rcTimers # <<>>)
    /\ [](FailureScheduled => rcTimers # <<>>)
    /\ []((last.ev = "start" /\ ws = 0) => FailureScheduled)
    /\ [][((CloseStep \/ ThrowingReattemptStep) /\ retryCount < MAX_RETRY) =>
             HasLog(emitted', "reconnect_in")]_vars
    /\ \A n \in 1..MAX_RETRY : ScheduledAt(n) ~> (Reattempted /\ ~ScheduledAt(n))

\* C19 witness: the only connection has just closed below the ceiling and the
\* reconnect timer is pending.
C19_Witness ==
    /\ last.ev = "close"
    /\ LiveSockets = {}
    /\ retryCount < MAX_RETRY
    /\ HasLog(emitted, "reconnect_in")
    /\ rcTimers # <<>>

\* C20: a well-formed frame of an unknown type only pushes the log of the
\* unknown command, a HEARTBEAT_ACK does nothing at all; both leave the
\* credential, runningScripts and the engines, the heartbeat interval and its
\* timers, the retry counter and the connection as they are, so that the
\* socket goes on receiving frames.
C20_UnknownAndAckIgnored ==
    [][/\ TextStep(UnknownFrame, FALSE) =>
            /\ Len(emitted') = 1
            /\ HasLog(emitted', "unknown_command")
       /\ TextStep(AckFrame, FALSE) => emitted' = <<>>
       /\ (TextStep(UnknownFrame, FALSE) \/ TextStep(AckFrame, FALSE)) =>
            UNCHANGED <<ws, socks, retryCount, rcTimers, hbTimers, authToken, stored,
                        hbInterval, running, engs, authPending, rejected, restart,
                        responses, issued, fails>>]_vars

\* C20 witness: a frame of an unknown type has just been handled while a script
\* is registered and running: only the log was pushed.
C20_Witness ==
    /\ last = Ev("text", "SCRIPT_PUSH", "")
    /\ Len(emitted) = 1
    /\ HasLog(emitted, "unknown_command")
    /\ Active # {}
    /\ OpenSockets # {}

\* C21: every engine that executeScript started and that has neither exited nor
\* been force-stopped is the engine registered under its id in runningScripts;
\* the exit event of an engine that is not the registered one of its id leaves
\* the entry of that id with the engine it names.
C21_RunningIsRegistered ==
    /\ [](\A e \in 1..MaxEngines : engs[e].st = "running" => running[engs[e].id] = e)
    /\ [][\A e \in 1..MaxEngines :
            (running[engs[e].id] \notin {0, e} /\ ExitStep(e)) =>
                /\ running'[engs[e].id] # 0
                /\ engs'[running'[engs[e].id]] = engs[running[engs[e].id]]]_vars

====
